---- MODULE Spec2Model ----
(***************************************************************************)
(* Model of gettext_coverage/main.py: the locale scan                      *)
(* (_scan_locale_packages) over a model of the /usr/share/locale tree, and *)
(* the window's scan / show / export handlers.                             *)
(*                                                                         *)
(* Coverage values are kept in tenths of a percent (500 is 50.0).          *)
(***************************************************************************)
EXTENDS Integers, Sequences, FiniteSets, TLC

(***************************************************************************)
(* Bounds                                                                  *)
(***************************************************************************)
\* number of names that may appear directly under the locale root
MaxLocales == 3
\* number of names under the locale root in the window specification
MaxGuiLocales == 1
\* number of scan-button clicks
MaxScans == 2
\* number of changes other processes make to the tree while the window runs
MaxFsChanges == 1
\* number of export-button clicks
MaxExports == 1

(***************************************************************************)
(* The filesystem under /usr/share/locale                                  *)
(***************************************************************************)
\* candidate names of the entries of the locale root
LocaleNames == <<"en", "sv", "fr", "de", "pt_BR">>

\* candidate names of the entries of an LC_MESSAGES directory
FileNames == {"app.mo", "pkg.mo", "demo"}

\* names that may be symbolic links whose target is missing
LinkNames == {"app.mo"}

Locales(n) == {LocaleNames[i] : i \in 1..n}

\* contents of one LC_MESSAGES directory: per name, no entry, a file, or a
\* dangling symbolic link
LcContents ==
  {f \in [FileNames -> {"none", "file", "dangling"}] :
     \A n \in FileNames : f[n] = "dangling" => n \in LinkNames}

NoFiles == [n \in FileNames |-> "none"]

\* one name under the root: missing, a regular file, a directory without
\* LC_MESSAGES, a directory whose LC_MESSAGES cannot be listed, or a
\* directory with a listable LC_MESSAGES
LocaleEntries ==
  {[kind |-> "none", lc |-> "none", msgs |-> NoFiles],
   [kind |-> "file", lc |-> "none", msgs |-> NoFiles],
   [kind |-> "dir", lc |-> "none", msgs |-> NoFiles],
   [kind |-> "dir", lc |-> "noperm", msgs |-> NoFiles]}
  \cup {[kind |-> "dir", lc |-> "dir", msgs |-> f] : f \in LcContents}

NoEntry == [kind |-> "none", lc |-> "none", msgs |-> NoFiles]

\* the root is a listable directory, or it is missing, a regular file, or a
\* directory that cannot be listed
Trees(n) ==
  {[root |-> "dir", entries |-> e] : e \in [Locales(n) -> LocaleEntries]}
  \cup {[root |-> k, entries |-> [l \in Locales(n) |-> NoEntry]] :
          k \in {"absent", "file", "noperm"}}

(***************************************************************************)
(* os.path.isdir, os.listdir and os.path.exists on the tree.  A call       *)
(* yields [raised, names]: raised is TRUE when the call raises OSError.    *)
(***************************************************************************)
\* variant: the isdir guard of the root always passes
IsDirRootAlways(t) == TRUE

\* os.path.isdir(locale_dir)
IsDirRoot(t) == t.root \in {"dir", "noperm"}

\* os.listdir(locale_dir)
ListDirRoot(t) ==
  IF t.root = "dir"
  THEN [raised |-> FALSE,
        names |-> {l \in DOMAIN t.entries : t.entries[l].kind # "none"}]
  ELSE [raised |-> TRUE, names |-> {}]

\* os.path.isdir(os.path.join(locale_dir, lang_dir, "LC_MESSAGES"))
IsDirLc(t, lang_dir) ==
  /\ t.entries[lang_dir].kind = "dir"
  /\ t.entries[lang_dir].lc \in {"dir", "noperm"}

\* os.listdir(lc_path)
ListDirLc(t, lang_dir) ==
  IF t.entries[lang_dir].kind = "dir" /\ t.entries[lang_dir].lc = "dir"
  THEN [raised |-> FALSE,
        names |-> {f \in FileNames : t.entries[lang_dir].msgs[f] # "none"}]
  ELSE [raised |-> TRUE, names |-> {}]

\* os.path.exists(os.path.join(lc_path, name)): follows symbolic links, so
\* a dangling link does not exist
Exists(t, lang_dir, name) ==
  /\ IsDirLc(t, lang_dir)
  /\ name \in FileNames
  /\ t.entries[lang_dir].msgs[name] = "file"

(***************************************************************************)
(* String helpers                                                          *)
(***************************************************************************)
\* str.endswith
EndsWith(s, suffix) ==
  /\ Len(s) >= Len(suffix)
  /\ SubSeq(s, Len(s) - Len(suffix) + 1, Len(s)) = suffix

\* variant: only two characters are cut off
StripSuffixShort(mo_file) == SubSeq(mo_file, 1, Len(mo_file) - 2)

\* mo_file[:-3]
StripSuffix(mo_file) == SubSeq(mo_file, 1, Len(mo_file) - 3)

\* code-point order of the characters that occur in the names
Alphabet == ".ABCDEFGHIJKLMNOPQRSTUVWXYZ_abcdefghijklmnopqrstuvwxyz"

Ord(c) == CHOOSE i \in 1..Len(Alphabet) : SubSeq(Alphabet, i, i) = c

\* a < b for Python strings
RECURSIVE StrLess(_, _)
StrLess(a, b) ==
  IF Len(b) = 0 THEN FALSE
  ELSE IF Len(a) = 0 THEN TRUE
  ELSE LET ca == Ord(SubSeq(a, 1, 1))
           cb == Ord(SubSeq(b, 1, 1))
       IN IF ca # cb THEN ca < cb
          ELSE StrLess(SubSeq(a, 2, Len(a)), SubSeq(b, 2, Len(b)))

\* sorted(packages)
RECURSIVE Sorted(_)
Sorted(S) ==
  IF S = {} THEN <<>>
  ELSE LET m == CHOOSE x \in S : \A y \in S \ {x} : StrLess(x, y)
       IN <<m>> \o Sorted(S \ {m})

(***************************************************************************)
(* _scan_locale_packages                                                   *)
(***************************************************************************)
\* the first loop: the set of package names, or the OSError of a listdir
Discover(t) ==
  LET top == ListDirRoot(t)
      lcs == {l \in top.names : IsDirLc(t, l)}
  IN IF top.raised \/ \E l \in lcs : ListDirLc(t, l).raised
     THEN [raised |-> TRUE, packages |-> {}]
     ELSE [raised |-> FALSE,
           packages |->
             UNION {{StripSuffix(mo_file) :
                       mo_file \in {f \in ListDirLc(t, l).names :
                                      EndsWith(f, ".mo")}} : l \in lcs}]

\* variant: every name under the root counts as a scanned locale
LangsTotalAll(t, pkg) == Cardinality(ListDirRoot(t).names)

\* variant: only the locales that lack the catalog are counted
LangsTotalMissing(t, pkg) ==
  Cardinality({l \in ListDirRoot(t).names :
                 IsDirLc(t, l) /\ ~Exists(t, l, pkg \o ".mo")})

\* langs_total after the inner loop
LangsTotal(t, pkg) ==
  Cardinality({l \in ListDirRoot(t).names : IsDirLc(t, l)})

\* langs_with after the inner loop
LangsWith(t, pkg) ==
  Cardinality({l \in ListDirRoot(t).names :
                 IsDirLc(t, l) /\ Exists(t, l, pkg \o ".mo")})

\* variant: the value is cut off after one decimal place
Round1Truncated(langs_with, langs_total) ==
  (1000 * langs_with) \div langs_total

\* round(langs_with / langs_total * 100, 1) in tenths of a percent: the
\* nearest tenth, a tie going to the even one.  A tie needs langs_total to
\* be a multiple of 16; below 80 locales the float result is this value.
Round1(langs_with, langs_total) ==
  LET q == (1000 * langs_with) \div langs_total
      r == (1000 * langs_with) % langs_total
  IN IF 2 * r < langs_total THEN q
     ELSE IF 2 * r > langs_total THEN q + 1
     ELSE IF q % 2 = 0 THEN q ELSE q + 1

\* the second loop over sorted(packages)
RECURSIVE Records(_, _)
Records(t, pkgs) ==
  IF pkgs = <<>> THEN <<>>
  ELSE LET pkg == Head(pkgs)
           langs_with == LangsWith(t, pkg)
           langs_total == LangsTotal(t, pkg)
       IN (IF langs_total > 0
           THEN <<[package |-> pkg,
                   languages |-> langs_with,
                   total_locales |-> langs_total,
                   coverage |-> Round1(langs_with, langs_total)]>>
           ELSE <<>>)
          \o Records(t, Tail(pkgs))

\* the call: [raised, results]
ScanLocalePackages(t) ==
  IF ~IsDirRoot(t) THEN [raised |-> FALSE, results |-> <<>>]
  ELSE LET d == Discover(t)
       IN IF d.raised THEN [raised |-> TRUE, results |-> <<>>]
          ELSE [raised |-> FALSE, results |-> Records(t, Sorted(d.packages))]

\* results.sort(key=lambda x: x["coverage"]): stable, ascending coverage
RECURSIVE InsertByCoverage(_, _)
InsertByCoverage(sorted, rec) ==
  IF sorted = <<>> THEN <<rec>>
  ELSE IF sorted[Len(sorted)].coverage <= rec.coverage
       THEN Append(sorted, rec)
       ELSE Append(InsertByCoverage(SubSeq(sorted, 1, Len(sorted) - 1), rec),
                   sorted[Len(sorted)])

RECURSIVE SortByCoverage(_)
SortByCoverage(results) ==
  IF results = <<>> THEN <<>>
  ELSE InsertByCoverage(
         SortByCoverage(SubSeq(results, 1, Len(results) - 1)),
         results[Len(results)])

(***************************************************************************)
(* State                                                                   *)
(***************************************************************************)
VARIABLES
  tree,        \* the filesystem under /usr/share/locale
  ret,         \* outcome of a direct call of _scan_locale_packages
  nScans,      \* number of scan threads started so far
  threads,     \* per scan thread: position in _do_scan and its results list
  idle,        \* GLib main-loop queue of pending _show_results calls
  packages,    \* self._packages
  owner,       \* the scan whose list object self._packages is (0: the initial [])
  listbox,     \* rows of self._listbox
  stack,       \* visible child of self._stack
  status,      \* text of self._status
  dialog,      \* whether the export file dialog is open
  csv,         \* the exported file
  exportOutcome, \* how the last _on_export_done ended
  fsChanges,   \* number of changes made to the tree by other processes
  nExports     \* number of export-button clicks so far

vars == <<tree, ret, nScans, threads, idle, packages, owner, listbox, stack,
          status, dialog, csv, exportOutcome, fsChanges, nExports>>

guiVars == <<nScans, threads, idle, packages, owner, listbox, stack,
             status, dialog, csv, exportOutcome, fsChanges, nExports>>

NotCalled == [called |-> FALSE, raised |-> FALSE, results |-> <<>>]

Scans == 1..MaxScans

\* the label texts
Status(kind, count) == [kind |-> kind, count |-> count]

\* GettextCoverageWindow.__init__
WindowInit ==
  /\ nScans = 0
  /\ threads = [t \in Scans |-> [pc |-> "unstarted", results |-> <<>>]]
  /\ idle = <<>>
  /\ packages = <<>>
  /\ owner = 0
  /\ listbox = <<>>
  /\ stack = "empty"
  /\ status = Status("Ready", 0)
  /\ dialog = "closed"
  /\ csv = [written |-> FALSE, header |-> FALSE, rows |-> <<>>]
  /\ exportOutcome = "none"
  /\ fsChanges = 0
  /\ nExports = 0

(***************************************************************************)
(* A direct call of the scan                                               *)
(***************************************************************************)
\* a direct call of _scan_locale_packages()
ScanCall ==
  /\ ~ret.called
  /\ ret' = [called |-> TRUE,
             raised |-> ScanLocalePackages(tree).raised,
             results |-> ScanLocalePackages(tree).results]
  /\ UNCHANGED <<tree, guiVars>>

InitScan ==
  /\ tree \in Trees(MaxLocales)
  /\ ret = NotCalled
  /\ WindowInit

NextScan == ScanCall

SpecScan == InitScan /\ [][NextScan]_vars

(***************************************************************************)
(* The window's handlers                                                   *)
(***************************************************************************)
\* _on_scan: the file dialog is modal, so the button is dead while it is open
OnScan ==
  /\ nScans < MaxScans
  /\ dialog = "closed"
  /\ status' = Status("Scanning packages...", 0)
  /\ nScans' = nScans + 1
  /\ threads' = [threads EXCEPT ![nScans + 1].pc = "running"]
  /\ UNCHANGED <<tree, ret, idle, packages, owner, listbox, stack, dialog,
                 csv, exportOutcome, fsChanges, nExports>>

\* _do_scan on the worker thread t, first statement: the scan reads the
\* tree; an exception of the scan ends the thread
DoScanCall(t) ==
  /\ threads[t].pc = "running"
  /\ LET r == ScanLocalePackages(tree)
     IN threads' = [threads EXCEPT
                      ![t] = [pc |-> IF r.raised THEN "raised" ELSE "scanned",
                              results |-> r.results]]
  /\ UNCHANGED <<tree, ret, nScans, idle, packages, owner, listbox, stack,
                 status, dialog, csv, exportOutcome, fsChanges, nExports>>

\* _do_scan on the worker thread t, the rest: results.sort and
\* GLib.idle_add(self._show_results, results)
DoScanPost(t) ==
  /\ threads[t].pc = "scanned"
  /\ LET results == SortByCoverage(threads[t].results)
     IN /\ threads' = [threads EXCEPT ![t] = [pc |-> "posted",
                                              results |-> results]]
        /\ idle' = Append(idle, [scan |-> t, results |-> results])
  /\ UNCHANGED <<tree, ret, nScans, packages, owner, listbox, stack, status,
                 dialog, csv, exportOutcome, fsChanges, nExports>>

\* the Adw.ActionRow built for one record
Row(pkg) ==
  [title |-> pkg.package,
   langs |-> pkg.languages,
   total |-> pkg.total_locales,
   pct |-> pkg.coverage,
   fraction |-> pkg.coverage]

\* _show_results, run by the main loop for the oldest pending idle source
ShowResults ==
  /\ idle # <<>>
  /\ LET results == Head(idle).results
     IN /\ packages' = results
        /\ owner' = Head(idle).scan
        /\ listbox' = [i \in 1..Len(results) |-> Row(results[i])]
        /\ stack' = "list"
        /\ status' = Status("Found %(count)d packages", Len(results))
        /\ threads' = [threads EXCEPT ![Head(idle).scan].pc = "shown"]
  /\ idle' = Tail(idle)
  /\ UNCHANGED <<tree, ret, nScans, dialog, csv, exportOutcome, fsChanges,
                 nExports>>

\* _on_export
OnExport ==
  /\ nExports < MaxExports
  /\ dialog = "closed"
  /\ nExports' = nExports + 1
  /\ dialog' = IF packages = <<>> THEN "closed" ELSE "open"
  /\ UNCHANGED <<tree, ret, nScans, threads, idle, packages, owner, listbox,
                 stack, status, csv, exportOutcome, fsChanges>>

\* the rows _on_export_done writes after the header
CsvRows(pkgs) ==
  [i \in 1..Len(pkgs) |->
     <<pkgs[i].package, pkgs[i].languages, pkgs[i].total_locales,
       pkgs[i].coverage>>]

\* _on_export_done: the dialog is dismissed or fails (save_finish raises),
\* open() raises, a write raises after k rows, or the file is written
OnExportDone(outcome, k) ==
  /\ dialog = "open"
  /\ dialog' = "closed"
  /\ exportOutcome' = outcome
  /\ CASE outcome = "save_finish raises" ->
            /\ k = 0
            /\ UNCHANGED <<csv, status>>
       [] outcome = "open raises" ->
            /\ k = 0
            /\ UNCHANGED <<csv, status>>
       [] outcome = "write raises" ->
            /\ k \in 0..Len(packages)
            /\ csv' = [written |-> TRUE, header |-> (k > 0),
                       rows |-> SubSeq(CsvRows(packages), 1, k - 1)]
            /\ UNCHANGED status
       [] outcome = "written" ->
            /\ k = Len(packages)
            /\ csv' = [written |-> TRUE, header |-> TRUE,
                       rows |-> CsvRows(packages)]
            /\ status' = Status("Exported to %s", 0)
  /\ UNCHANGED <<tree, ret, nScans, threads, idle, packages, owner, listbox,
                 stack, fsChanges, nExports>>

ExportOutcomes ==
  {"save_finish raises", "open raises", "write raises", "written"}

\* another process replaces one entry of the locale root
FsChange ==
  /\ fsChanges < MaxFsChanges
  /\ tree.root = "dir"
  /\ fsChanges' = fsChanges + 1
  /\ \E l \in DOMAIN tree.entries, e \in LocaleEntries :
       /\ e # tree.entries[l]
       /\ tree' = [tree EXCEPT !.entries[l] = e]
  /\ UNCHANGED <<ret, nScans, threads, idle, packages, owner, listbox, stack,
                 status, dialog, csv, exportOutcome, nExports>>

Init ==
  /\ tree \in Trees(MaxGuiLocales)
  /\ ret = NotCalled
  /\ WindowInit

Next ==
  \/ OnScan
  \/ \E t \in Scans : DoScanCall(t)
  \/ \E t \in Scans : DoScanPost(t)
  \/ ShowResults
  \/ OnExport
  \/ \E outcome \in ExportOutcomes, k \in 0..Cardinality(FileNames) : OnExportDone(outcome, k)
  \/ FsChange

Spec == Init /\ [][Next]_vars

(***************************************************************************)
(* Properties of _scan_locale_packages, checked under SpecScan             *)
(***************************************************************************)
\* the call has returned a list
Returned == ret.called /\ ~ret.raised

RetRecords == {ret.results[i] : i \in 1..Len(ret.results)}

\* the names under the root that are directories holding an LC_MESSAGES
\* directory
LcMessagesDirs(t) ==
  {l \in DOMAIN t.entries :
     /\ t.root \in {"dir", "noperm"}
     /\ t.entries[l].kind = "dir"
     /\ t.entries[l].lc \in {"dir", "noperm"}}

\* the LC_MESSAGES directories that have an entry of the given name
DirsWithEntry(t, name) ==
  {l \in LcMessagesDirs(t) :
     name \in FileNames /\ t.entries[l].msgs[name] # "none"}

\* every string that is the beginning of a candidate file name
Prefixes == UNION {{SubSeq(f, 1, k) : k \in 0..Len(f)} : f \in FileNames}

\* p is a package of the tree when some LC_MESSAGES has an entry p + ".mo"
ExpectedPackages(t) == {p \in Prefixes : DirsWithEntry(t, p \o ".mo") # {}}

\* C1: every returned record has the same total_locales, the number of
\* immediate subdirectories of the root that contain an LC_MESSAGES
\* directory, whatever the package.
C1_TotalLocales ==
  Returned =>
    \A r \in RetRecords :
      r.total_locales = Cardinality(LcMessagesDirs(tree))

\* two packages are reported over two scanned locales while a third
\* subdirectory has no LC_MESSAGES
C1_Witness ==
  /\ Returned
  /\ Cardinality(RetRecords) = 2
  /\ Cardinality(LcMessagesDirs(tree)) = 2
  /\ \E l \in DOMAIN tree.entries :
       tree.entries[l].kind = "dir" /\ tree.entries[l].lc = "none"

\* C2: the package names of the returned records are exactly the names,
\* with ".mo" cut off, of the entries ending in ".mo" of all LC_MESSAGES
\* directories, and there is one record per name.
C2_PackageNames ==
  Returned =>
    /\ {r.package : r \in RetRecords} = ExpectedPackages(tree)
    /\ Len(ret.results) = Cardinality(ExpectedPackages(tree))

\* app.mo and pkg.mo sit in different locales, next to an entry that is
\* not a catalog
C2_Witness ==
  /\ Returned
  /\ {r.package : r \in RetRecords} = {"app", "pkg"}
  /\ DirsWithEntry(tree, "demo") # {}
  /\ DirsWithEntry(tree, "app.mo") \cap DirsWithEntry(tree, "pkg.mo") = {}

\* C3: languages of the record of package p is the number of LC_MESSAGES
\* directories that contain an entry named p + ".mo".
C3_LanguagesCountsEntries ==
  Returned =>
    \A r \in RetRecords :
      r.languages = Cardinality(DirsWithEntry(tree, r.package \o ".mo"))

\* C4: coverage is languages / total_locales * 100 rounded to one decimal
\* place: no tenth is nearer, 1 of 2 gives 50.0 and 2 of 2 gives 100.0.
C4_CoverageRounded ==
  Returned =>
    \A r \in RetRecords :
      r.total_locales > 0 =>
        LET exact == 1000 * r.languages
            shown == r.coverage * r.total_locales
        IN /\ 2 * (shown - exact) <= r.total_locales
           /\ 2 * (exact - shown) <= r.total_locales
           /\ (r.languages = 1 /\ r.total_locales = 2) => r.coverage = 500
           /\ (r.languages = 2 /\ r.total_locales = 2) => r.coverage = 1000

\* a package found in 2 of 3 scanned locales: 66.666... is rounded up
C4_Witness ==
  /\ Returned
  /\ \E r \in RetRecords :
       r.languages = 2 /\ r.total_locales = 3 /\ r.coverage = 667

\* C5: with one LC_MESSAGES directory unreadable the scan does not raise,
\* leaves that locale out of total_locales and returns the packages of the
\* other locales.
C5_UnreadableSkipped ==
  LET unreadable == {l \in LcMessagesDirs(tree) :
                       tree.entries[l].lc = "noperm"}
      readable == LcMessagesDirs(tree) \ unreadable
  IN (ret.called /\ Cardinality(unreadable) = 1) =>
       /\ ~ret.raised
       /\ {r.package : r \in RetRecords} = ExpectedPackages(tree)
       /\ \A r \in RetRecords : r.total_locales = Cardinality(readable)

\* C6: when the root is missing or is not a directory the call returns an
\* empty list and raises nothing.
C6_MissingRoot ==
  (ret.called /\ tree.root \in {"absent", "file"}) =>
    (~ret.raised /\ ret.results = <<>>)

\* the call was made with no root directory
C6_Witness ==
  /\ ret.called
  /\ tree.root = "absent"
  /\ ret.results = <<>>

\* C9: every returned record has 0 <= languages <= total_locales.
C9_LanguagesBounded ==
  Returned =>
    \A r \in RetRecords :
      0 <= r.languages /\ r.languages <= r.total_locales

\* one package is in every scanned locale, another in only some of them
C9_Witness ==
  /\ Returned
  /\ \E r \in RetRecords : r.languages = r.total_locales /\ r.languages >= 2
  /\ \E r \in RetRecords : 0 < r.languages /\ r.languages < r.total_locales

(***************************************************************************)
(* Properties of the window, checked under Spec                            *)
(***************************************************************************)
\* the thread of scan t has ended
Ended(t) == threads[t].pc \in {"posted", "shown", "raised"}

\* number of times the result of scan t was given to the main loop
Handoffs(t) ==
  Cardinality({i \in 1..Len(idle) : idle[i].scan = t})
  + (IF threads[t].pc = "shown" THEN 1 ELSE 0)

\* C7: every scan that was started hands its result over exactly once, and
\* the window only ever holds and lists a complete result of one scan.
C7_HandoffExactlyOnce ==
  /\ \A t \in Scans : Handoffs(t) = (IF Ended(t) THEN 1 ELSE 0)
  /\ \/ owner = 0 /\ packages = <<>>
     \/ owner \in Scans /\ packages = threads[owner].results
  /\ listbox = [i \in 1..Len(packages) |-> Row(packages[i])]

\* the status texts the window sets when nothing has failed
OrdinaryStatus ==
  {"Ready", "Scanning packages...", "Found %(count)d packages",
   "Exported to %s"}

\* C8: when the export fails, the status shows a failure message, the
\* dialog is not opened again and the stored results stay as they are.
C8_ExportFailureReported ==
  [][(dialog = "open" /\ dialog' = "closed" /\ exportOutcome' # "written") =>
       /\ status'.kind \notin OrdinaryStatus
       /\ packages' = packages]_vars

\* C10: once every started scan has been shown, the window holds and
\* lists the result of the scan that was started last.
C10_LatestScanWins ==
  (/\ nScans >= 1
   /\ idle = <<>>
   /\ \A t \in 1..nScans : threads[t].pc = "shown") =>
    /\ packages = threads[nScans].results
    /\ listbox = [i \in 1..Len(threads[nScans].results) |->
                    Row(threads[nScans].results[i])]

====
